---- MODULE Spec2Model ----
(***************************************************************************)
(* Model of src/1_foundations/Carbaz/app.py: the tool-call resolution loop *)
(* of Me.chat, the dispatcher Me.handle_tool_call, the two recording tools *)
(* and the push notifier.  The remote completion API and the notification  *)
(* transport are the environment: the response of each completion request  *)
(* and the outcome of each HTTP post are chosen nondeterministically.      *)
(***************************************************************************)
EXTENDS Integers, Sequences, FiniteSets, TLC

VARIABLES pc,            \* position of the chat call
          message,       \* chat's parameter `message` (the user's text)
          history,       \* the caller's history list
          messages,      \* chat's local working message list
          response,      \* the last completion response
          requests,      \* message lists sent to the completion API, in order
          responses,     \* completion responses received, in order
          notifications, \* texts posted to the notification endpoint, in order
          returned,      \* value returned by chat
          error          \* exception that aborted chat, if any

vars == <<pc, message, history, messages, response, requests, responses,
          notifications, returned, error>>

----------------------------------------------------------------------------
(* Bounds of the explored inputs *)

MaxHistory == 1   \* most earlier turns (user, assistant) in the history
MaxInvocations == 3   \* most tool invocations the remote model requests in one call
MaxRounds == 2    \* most tool-call responses the remote model gives in one call

----------------------------------------------------------------------------
(* Python values *)

None == "None"   \* a message content of None
PyNone == [type |-> "NoneType"]
PyDict(items) == [type |-> "dict", items |-> items]
NoResponse == [finish_reason |-> "none"]
NoError == [kind |-> "none", at |-> 0]

(* json.dumps of the values a tool call can produce *)
json_dumps(value) ==
    IF value.type = "NoneType" THEN "null"
    ELSE IF DOMAIN value.items = {} THEN "{}"
    ELSE IF DOMAIN value.items = {"recorded"}
         THEN "{\"recorded\": \"" \o value.items["recorded"] \o "\"}"
    ELSE "{...}"

(* Serialized argument strings the remote model may send *)
ArgQuestion == "{\"question\": \"What is your favorite color?\"}"
ArgEmail == "{\"email\": \"a@b.com\"}"
ArgEmailNotes == "{\"email\": \"a@b.com\", \"notes\": \"call me\"}"
ArgText == "{\"text\": \"spam\"}"
ArgEmpty == "{}"
ArgMalformed == "{\"question\": "

(* json.loads: a dict of named values, or JSONDecodeError *)
json_loads(raw) ==
    CASE raw = ArgQuestion ->
           [ok |-> TRUE, value |-> ("question" :> "What is your favorite color?")]
      [] raw = ArgEmail ->
           [ok |-> TRUE, value |-> ("email" :> "a@b.com")]
      [] raw = ArgEmailNotes ->
           [ok |-> TRUE, value |-> ("email" :> "a@b.com" @@ "notes" :> "call me")]
      [] raw = ArgText ->
           [ok |-> TRUE, value |-> ("text" :> "spam")]
      [] raw = ArgEmpty ->
           [ok |-> TRUE, value |-> <<>>]
      [] OTHER ->
           [ok |-> FALSE, value |-> <<>>]

----------------------------------------------------------------------------
(* Module-level functions *)

(* push: one HTTP post; requests.post raises when the transport fails *)
push(text, postRaises) ==
    IF postRaises
    THEN [raised |-> "ConnectionError", pushed |-> <<>>, value |-> PyNone]
    ELSE [raised |-> "none", pushed |-> <<text>>, value |-> PyNone]

\* Binding of keyword arguments to a signature: TypeError on a missing
\* required or an unexpected keyword
Binds(arguments, required, accepted) ==
    /\ required \subseteq DOMAIN arguments
    /\ DOMAIN arguments \subseteq accepted

TypeError == [raised |-> "TypeError", pushed |-> <<>>, value |-> PyNone]

Default(arguments, key, default) ==
    IF key \in DOMAIN arguments THEN arguments[key] ELSE default

UserDetailsText(email, name, notes) ==
    "Recording " \o name \o " with email " \o email \o " and notes " \o notes

record_user_details(arguments, postRaises) ==
    IF ~Binds(arguments, {"email"}, {"email", "name", "notes"}) THEN TypeError
    ELSE LET sent == push(UserDetailsText(arguments["email"],
                              Default(arguments, "name", "Name not provided"),
                              Default(arguments, "notes", "not provided")),
                          postRaises)
         IN IF sent.raised # "none" THEN sent
            ELSE [sent EXCEPT !.value = PyDict("recorded" :> "ok")]

UnknownQuestionText(question) == "Recording " \o question

record_unknown_question(arguments, postRaises) ==
    IF ~Binds(arguments, {"question"}, {"question"}) THEN TypeError
    ELSE LET sent == push(UnknownQuestionText(arguments["question"]), postRaises)
         IN IF sent.raised # "none" THEN sent
            ELSE [sent EXCEPT !.value = PyDict("recorded" :> "ok")]

(* The tools offered to the remote model *)
tools == {"record_user_details", "record_unknown_question"}

(* Names bound in the module's global namespace, by what they are bound to *)
GlobalFunctions == {"push", "record_user_details", "record_unknown_question"}
GlobalObjects == {"json", "os", "tools", "record_user_details_json",
                  "record_unknown_question_json"}
GlobalClasses == {"Me"}

(* globals().get(tool_name): the bound object, or None *)
globals_get(tool_name) ==
    IF tool_name \in GlobalFunctions THEN [kind |-> "function", name |-> tool_name]
    ELSE IF tool_name \in GlobalObjects THEN [kind |-> "object", name |-> tool_name]
    ELSE IF tool_name \in GlobalClasses THEN [kind |-> "class", name |-> tool_name]
    ELSE [kind |-> "None", name |-> tool_name]

\* The call `tool(** arguments) if tool else {}`
CallTool(tool, arguments, postRaises) ==
    IF tool.kind = "None"
    THEN [raised |-> "none", pushed |-> <<>>, value |-> PyDict(<<>>)]
    ELSE IF tool.kind = "function" /\ tool.name = "record_user_details"
    THEN record_user_details(arguments, postRaises)
    ELSE IF tool.kind = "function" /\ tool.name = "record_unknown_question"
    THEN record_unknown_question(arguments, postRaises)
    ELSE IF tool.kind = "function" /\ tool.name = "push"
    THEN IF Binds(arguments, {"text"}, {"text"})
         THEN push(arguments["text"], postRaises) ELSE TypeError
    ELSE TypeError

----------------------------------------------------------------------------
(* Me.handle_tool_call *)

ToolMessage(result, tool_call) ==
    [role |-> "tool", content |-> json_dumps(result), tool_call_id |-> tool_call.id]

\* Variant: a deserialization failure is answered with an empty result
HandleOne_SkipsBadArguments(tool_call, postRaises) ==
    LET arguments == json_loads(tool_call.function.arguments)
    IN IF ~arguments.ok
       THEN [raised |-> "none", pushed |-> <<>>, value |-> PyDict(<<>>)]
       ELSE CallTool(globals_get(tool_call.function.name), arguments.value,
                     postRaises)

\* One iteration of the for loop: arguments are deserialized first, then the
\* name is looked up, then the tool is called
HandleOne(tool_call, postRaises) ==
    LET arguments == json_loads(tool_call.function.arguments)
    IN IF ~arguments.ok
       THEN [raised |-> "JSONDecodeError", pushed |-> <<>>, value |-> PyNone]
       ELSE CallTool(globals_get(tool_call.function.name), arguments.value,
                     postRaises)

\* The loop from invocation i on.  failAt is the invocation during which the
\* notification transport raises (0: it never does).
RECURSIVE HandleFrom(_, _, _, _, _)
HandleFrom(tool_calls, i, results, pushed, failAt) ==
    IF i > Len(tool_calls)
    THEN [results |-> results, pushed |-> pushed, raised |-> "none", at |-> 0]
    ELSE LET out == HandleOne(tool_calls[i], failAt = i)
         IN IF out.raised # "none"
            THEN [results |-> results, pushed |-> pushed \o out.pushed,
                  raised |-> out.raised, at |-> i]
            ELSE HandleFrom(tool_calls, i + 1,
                            Append(results, ToolMessage(out.value, tool_calls[i])),
                            pushed \o out.pushed, failAt)

\* Variant: `results` is rebound in the loop instead of appended to
handle_tool_call_KeepsLast(tool_calls, failAt) ==
    LET out == HandleFrom(tool_calls, 1, <<>>, <<>>, failAt)
    IN [out EXCEPT !.results = IF Len(out.results) = 0 THEN <<>>
                                ELSE <<out.results[Len(out.results)]>>]

handle_tool_call(tool_calls, failAt) == HandleFrom(tool_calls, 1, <<>>, <<>>, failAt)

----------------------------------------------------------------------------
(* Me: the persona loaded by __init__, and the system prompt *)

name == "Carlos Bazaga"
summary == "summary text"
linkedin == "linkedin text"

system_prompt ==
    "You are acting as " \o name \o ". ## Summary: " \o summary
        \o " ## LinkedIn Profile: " \o linkedin
        \o " With this context, please chat with the user."

----------------------------------------------------------------------------
(* Inputs: the caller's arguments and the remote model's responses *)

UserMessages == {"", "Who are you?"}

HistoryAt(i) ==
    IF i % 2 = 1 THEN [role |-> "user", content |-> "Hello"]
    ELSE [role |-> "assistant", content |-> "Hi, I am Carlos"]

Histories == {[i \in 1..(2 * n) |-> HistoryAt(i)] : n \in 0..MaxHistory}

\* Invocations the remote model may request: [name, arguments]
ToolRequests ==
    { <<"record_unknown_question", ArgQuestion>>,
      <<"record_user_details", ArgEmail>>,
      <<"record_user_details", ArgEmailNotes>>,
      <<"lookup_weather", ArgQuestion>>,
      <<"push", ArgText>>,
      <<"tools", ArgEmpty>>,
      <<"record_unknown_question", ArgMalformed>>,
      <<"record_user_details", ArgQuestion>>,
      <<"lookup_weather", ArgMalformed>> }

Digit == <<"1", "2", "3", "4", "5", "6">>
CallId(round, k) == "call_" \o Digit[round] \o "_" \o Digit[k]

ToolCall(round, k, req) ==
    [id |-> CallId(round, k), type |-> "function",
     function |-> [name |-> req[1], arguments |-> req[2]]]

ToolCallLists(round, most) ==
    UNION { {[k \in 1..n |-> ToolCall(round, k, reqs[k])] :
                reqs \in [1..n -> ToolRequests]} : n \in 1..most }

AssistantMessage(content, tool_calls) ==
    [role |-> "assistant", content |-> content, tool_calls |-> tool_calls]

\* Responses that request tool invocations
ToolCallResponses(round, most) ==
    {[finish_reason |-> "tool_calls", message |-> AssistantMessage(None, tcs)] :
        tcs \in ToolCallLists(round, most)}

\* Invocations requested by the tool-call responses so far
RECURSIVE InvocationsRequested(_)
InvocationsRequested(resps) ==
    IF resps = <<>> THEN 0
    ELSE (IF Head(resps).finish_reason = "tool_calls"
          THEN Len(Head(resps).message.tool_calls) ELSE 0)
         + InvocationsRequested(Tail(resps))

\* Responses with any other termination reason; the last one carries tool
\* calls although its termination reason is a normal stop
OtherResponses(round) ==
    { [finish_reason |-> "stop",
       message |-> AssistantMessage("I am Carlos, an engineer.", <<>>)],
      [finish_reason |-> "length",
       message |-> AssistantMessage("I am Car", <<>>)],
      [finish_reason |-> "stop",
       message |-> AssistantMessage("Noted.",
           <<ToolCall(round, 1, <<"record_unknown_question", ArgQuestion>>)>>)] }

----------------------------------------------------------------------------
(* Me.chat *)

\* Variant: the working list is the caller's list (`messages = history`)
BuildMessages_Aliased(msg, hist) ==
    LET built == <<[role |-> "system", content |-> system_prompt]>> \o hist
                    \o <<[role |-> "user", content |-> msg]>>
    IN [messages |-> built, history |-> built]

\* Lines 148-150: the working list is a new list; history is only read
BuildMessages(msg, hist) ==
    [messages |-> <<[role |-> "system", content |-> system_prompt]>> \o hist
                    \o <<[role |-> "user", content |-> msg]>>,
     history |-> hist]

\* Variant: the loop goes on whenever the message carries tool calls
RequestsTools_ByToolCalls(resp) == resp.message.tool_calls # <<>>

\* Variant: only a normal stop ends the loop
RequestsTools_UnlessStop(resp) == resp.finish_reason # "stop"

\* Line 155: the loop goes on only for the tool-call termination reason
RequestsTools(resp) == resp.finish_reason = "tool_calls"

\* Line 161
ReturnValue(resp) == resp.message.content

\* Variant: the results are added before the assistant's message
AppendRound_ResultsFirst(msgs, assistant, results) ==
    (msgs \o results) \o <<assistant>>

\* Lines 159-160, after handle_tool_call returned
AppendRound(msgs, assistant, results) == Append(msgs, assistant) \o results

Init ==
    /\ pc = "START"
    /\ message \in UserMessages
    /\ history \in Histories
    /\ messages = <<>>
    /\ response = NoResponse
    /\ requests = <<>>
    /\ responses = <<>>
    /\ notifications = <<>>
    /\ returned = None
    /\ error = NoError

ChatStart ==
    /\ pc = "START"
    /\ LET built == BuildMessages(message, history)
       IN /\ messages' = built.messages
          /\ history' = built.history
    /\ pc' = "AWAITING_MODEL"
    /\ UNCHANGED <<message, response, requests, responses, notifications,
                   returned, error>>

\* Lines 152-157 and 161: one completion request with the whole working
\* list, then either the break and the return of the content, or the
\* response's message replaces chat's `message`
CreateCompletion ==
    /\ pc = "AWAITING_MODEL"
    /\ requests' = Append(requests, messages)
    /\ \E resp \in OtherResponses(Len(responses) + 1)
                   \cup (IF Len(responses) < MaxRounds
                         THEN ToolCallResponses(Len(responses) + 1,
                                  MaxInvocations - InvocationsRequested(responses))
                         ELSE {}) :
          /\ response' = resp
          /\ responses' = Append(responses, resp)
          /\ IF RequestsTools(resp)
             THEN /\ message' = resp.message
                  /\ pc' = "HAS_TOOL_CALLS"
                  /\ UNCHANGED returned
             ELSE /\ returned' = ReturnValue(resp)
                  /\ pc' = "HAS_FINAL_ANSWER"
                  /\ UNCHANGED message
    /\ UNCHANGED <<history, messages, notifications, error>>

\* Lines 158-160 when handle_tool_call returns
Dispatch ==
    /\ pc = "HAS_TOOL_CALLS"
    /\ \E failAt \in 0..Len(message.tool_calls) :
          LET out == handle_tool_call(message.tool_calls, failAt)
          IN /\ out.raised = "none"
             /\ notifications' = notifications \o out.pushed
             /\ messages' = AppendRound(messages, message, out.results)
    /\ pc' = "AWAITING_MODEL"
    /\ UNCHANGED <<message, history, response, requests, responses, returned,
                   error>>

\* Line 158 when handle_tool_call raises: the exception leaves chat
DispatchRaises ==
    /\ pc = "HAS_TOOL_CALLS"
    /\ \E failAt \in 0..Len(message.tool_calls) :
          LET out == handle_tool_call(message.tool_calls, failAt)
          IN /\ out.raised # "none"
             /\ notifications' = notifications \o out.pushed
             /\ error' = [kind |-> out.raised, at |-> out.at]
    /\ pc' = "ERROR"
    /\ UNCHANGED <<message, history, messages, response, requests, responses,
                   returned>>

Next ==
    \/ ChatStart
    \/ CreateCompletion
    \/ Dispatch
    \/ DispatchRaises

Spec == Init /\ [][Next]_vars

TypeOK ==
    /\ pc \in {"START", "AWAITING_MODEL", "HAS_TOOL_CALLS",
               "HAS_FINAL_ANSWER", "ERROR"}
    /\ Len(requests) \in {Len(responses), Len(responses) + 1}

----------------------------------------------------------------------------
(* Vocabulary of the properties *)

ToolCallsOf(k) == responses[k].message.tool_calls

IsRegistered(tool_call) == tool_call.function.name \in tools

\* The result messages request k carries for the invocations of response k-1
ResultAt(k, j) == requests[k][Len(requests[k - 1]) + 1 + j]

\* The notification a registered tool is to emit for an invocation
NotificationFor(tool_call) ==
    LET args == json_loads(tool_call.function.arguments).value
    IN IF tool_call.function.name = "record_unknown_question"
       THEN "Recording " \o args["question"]
       ELSE "Recording "
            \o (IF "name" \in DOMAIN args THEN args["name"] ELSE "Name not provided")
            \o " with email " \o args["email"] \o " and notes "
            \o (IF "notes" \in DOMAIN args THEN args["notes"] ELSE "not provided")

\* Notifications of the registered invocations among the first n of a batch
RECURSIVE RegisteredTexts(_, _)
RegisteredTexts(tool_calls, n) ==
    IF n = 0 THEN <<>>
    ELSE RegisteredTexts(tool_calls, n - 1)
         \o (IF IsRegistered(tool_calls[n])
             THEN <<NotificationFor(tool_calls[n])>> ELSE <<>>)

\* Notifications of the registered invocations requested in responses 1..k
RECURSIVE RequestedTexts(_)
RequestedTexts(k) ==
    IF k = 0 THEN <<>>
    ELSE RequestedTexts(k - 1)
         \o (IF responses[k].finish_reason = "tool_calls"
             THEN RegisteredTexts(ToolCallsOf(k), Len(ToolCallsOf(k))) ELSE <<>>)

\* Texts posted by a batch's first n invocations, all of which completed:
\* those of the registered tools and of a call that reached push by name
RECURSIVE PostedTexts(_, _)
PostedTexts(tool_calls, n) ==
    IF n = 0 THEN <<>>
    ELSE PostedTexts(tool_calls, n - 1)
         \o (IF IsRegistered(tool_calls[n])
             THEN <<NotificationFor(tool_calls[n])>>
             ELSE IF tool_calls[n].function.name = "push"
             THEN <<json_loads(tool_calls[n].function.arguments).value["text"]>>
             ELSE <<>>)

\* The arguments do not deserialize, or not to parameters the tool accepts
BadArguments(tool_call) ==
    LET args == json_loads(tool_call.function.arguments)
        fn == tool_call.function.name
    IN \/ ~args.ok
       \/ /\ fn = "record_user_details"
          /\ ~("email" \in DOMAIN args.value
               /\ DOMAIN args.value \subseteq {"email", "name", "notes"})
       \/ /\ fn = "record_unknown_question"
          /\ DOMAIN args.value # {"question"}

----------------------------------------------------------------------------
(* Properties *)

\* C1: when the first completion response has the normal-stop termination
\* reason, chat has issued exactly one completion request, has run no tool
\* handler (no notification was posted) and returns that response's content.
C1_StopOnFirstResponse ==
    (Len(responses) >= 1 /\ responses[1].finish_reason = "stop") =>
        /\ pc = "HAS_FINAL_ANSWER"
        /\ Len(requests) = 1
        /\ Len(responses) = 1
        /\ notifications = <<>>
        /\ error = NoError
        /\ returned = responses[1].message.content

C1_Witness ==
    /\ pc = "HAS_FINAL_ANSWER"
    /\ Len(responses) = 1
    /\ responses[1].finish_reason = "stop"
    /\ responses[1].message.tool_calls # <<>>
    /\ returned = "Noted."

\* C2: every completion request after the first carries, for the N tool
\* invocations of the preceding response, exactly N tool-result messages
\* added since the preceding request, the j-th with the id of the j-th
\* invocation.
C2_ResultsMatchInvocations ==
    \A k \in 2..Len(requests) :
        LET N == Len(ToolCallsOf(k - 1))
            added == {i \in (Len(requests[k - 1]) + 1)..Len(requests[k]) :
                         requests[k][i].role = "tool"}
        IN /\ N >= 1
           /\ Len(requests[k]) = Len(requests[k - 1]) + 1 + N
           /\ Cardinality(added) = N
           /\ \A j \in 1..N :
                 /\ ResultAt(k, j).role = "tool"
                 /\ ResultAt(k, j).tool_call_id = ToolCallsOf(k - 1)[j].id

C2_Witness ==
    /\ Len(requests) >= 2
    /\ Len(ToolCallsOf(1)) = 2
    /\ ResultAt(2, 1).tool_call_id = "call_1_1"
    /\ ResultAt(2, 2).tool_call_id = "call_1_2"
    /\ ResultAt(2, 1).content # ResultAt(2, 2).content

\* C3: an invocation whose name is not a registered tool raises no error and
\* gets the empty result object "{}", whatever the name (also one that is
\* bound in the global namespace).
C3_UnknownToolIsNoop ==
    /\ pc = "ERROR" => IsRegistered(message.tool_calls[error.at])
    /\ \A k \in 2..Len(requests) : \A j \in 1..Len(ToolCallsOf(k - 1)) :
          ~IsRegistered(ToolCallsOf(k - 1)[j]) => ResultAt(k, j).content = "{}"

\* C4: a failure of the notification transport does not abort the chat call.
C4_TransportFailureSurvives ==
    pc = "ERROR" => error.kind # "ConnectionError"

\* C5: the first completion request carries the system message, then the
\* history in its order, then the user message holding `message`; and no step
\* changes the caller's history list.
C5_FirstRequest ==
    [][ /\ history' = history
        /\ (requests = <<>> /\ requests' # <<>>) =>
              /\ Len(requests') = 1
              /\ Len(requests'[1]) = Len(history) + 2
              /\ requests'[1][1] = [role |-> "system", content |-> system_prompt]
              /\ \A i \in 1..Len(history) : requests'[1][i + 1] = history[i]
              /\ requests'[1][Len(history) + 2] =
                     [role |-> "user", content |-> message] ]_vars

C5_Witness ==
    /\ Len(requests) = 1
    /\ history = <<>>
    /\ requests[1][2] = [role |-> "user", content |-> ""]

\* C6: when chat returns, the notifications posted are exactly those of the
\* registered-tool invocations requested over all rounds, one each, in order.
C6_ConsumedExactlyOnce ==
    pc = "HAS_FINAL_ANSWER" => notifications = RequestedTexts(Len(responses))

\* C7: chat issues no completion request beyond a maximum round count, even
\* when every response requests tool calls.
C7_RoundCap ==
    Len(requests) <= MaxRounds

\* C8: each completion request after the first is the preceding request,
\* then the preceding response's assistant message unchanged, then only
\* tool-result messages; and the working list always extends the last request.
C8_AppendOnly ==
    /\ \A k \in 2..Len(requests) :
          LET prev == requests[k - 1]
              cur == requests[k]
          IN /\ Len(cur) > Len(prev) + 1
             /\ SubSeq(cur, 1, Len(prev)) = prev
             /\ cur[Len(prev) + 1] = responses[k - 1].message
             /\ \A i \in (Len(prev) + 2)..Len(cur) : cur[i].role = "tool"
    /\ Len(requests) >= 1 =>
          /\ Len(messages) >= Len(requests[Len(requests)])
          /\ SubSeq(messages, 1, Len(requests[Len(requests)]))
                 = requests[Len(requests)]

C8_Witness ==
    /\ Len(requests) = 3
    /\ Len(requests[3]) = Len(requests[1]) + 5
    /\ requests[3][Len(requests[1]) + 1].role = "assistant"
    /\ requests[3][Len(requests[2]) + 1].role = "assistant"

\* C9: from AWAITING_MODEL the call goes to HAS_TOOL_CALLS on the tool-call
\* termination reason and to HAS_FINAL_ANSWER on any other; from
\* HAS_TOOL_CALLS it goes back to AWAITING_MODEL unless the dispatch raises;
\* in HAS_FINAL_ANSWER the value returned is the content of the last response
\* and no request follows it.  The step that receives a response with another
\* termination reason is the step that reaches HAS_FINAL_ANSWER.
C9_StateMachine ==
    /\ [](pc = "HAS_FINAL_ANSWER" =>
             /\ response.finish_reason # "tool_calls"
             /\ response = responses[Len(responses)]
             /\ Len(requests) = Len(responses)
             /\ returned = response.message.content)
    /\ [][pc = "AWAITING_MODEL" =>
             IF response'.finish_reason = "tool_calls"
             THEN pc' = "HAS_TOOL_CALLS" ELSE pc' = "HAS_FINAL_ANSWER"]_vars
    /\ [][pc = "HAS_TOOL_CALLS" => pc' \in {"AWAITING_MODEL", "ERROR"}]_vars
    /\ [][pc = "HAS_FINAL_ANSWER" => FALSE]_vars

C9_Witness ==
    /\ pc = "HAS_FINAL_ANSWER"
    /\ Len(responses) = 3
    /\ response.finish_reason = "length"
    /\ returned = "I am Car"

\* C10: a batch with an invocation whose arguments do not deserialize, or not
\* to parameters its tool accepts, aborts the call; when the call aborts at
\* such an invocation the working list and the requests are as they were, the
\* notifications of the batch's earlier invocations stay posted, and nothing
\* happens after the abort.
C10_BadArgumentsAbort ==
    /\ [][pc = "HAS_TOOL_CALLS" /\ (\E j \in 1..Len(message.tool_calls) :
                                       BadArguments(message.tool_calls[j]))
             => pc' = "ERROR"]_vars
    /\ [][(pc = "HAS_TOOL_CALLS" /\ pc' = "ERROR"
              /\ BadArguments(message.tool_calls[error'.at])
              /\ error'.kind \in {"JSONDecodeError", "TypeError"})
             => /\ messages' = messages
                /\ requests' = requests
                /\ returned' = None
                /\ notifications' = notifications
                       \o PostedTexts(message.tool_calls, error'.at - 1)]_vars
    /\ [][pc = "ERROR" => FALSE]_vars

C10_Witness ==
    /\ pc = "ERROR"
    /\ error = [kind |-> "JSONDecodeError", at |-> 2]
    /\ Len(requests) = 1
    /\ messages = requests[1]
    /\ notifications = <<"Recording What is your favorite color?">>

====
